---- MODULE Spec2Model ----
(***************************************************************************)
(* The write path of wstp-rs (src/src/put.rs) and the two-thread exchange  *)
(* of src/tests/test_links.rs.                                             *)
(*                                                                         *)
(* A Link is modelled by the record of what its underlying channel has     *)
(* been asked to write: log is the sequence of channel writes, each with   *)
(* the token and the status the channel answered; err is the link's error  *)
(* state.  Each put_* method is an operator from a link, its arguments and *)
(* the channel's answers to the link afterwards and the outcome of the     *)
(* call: Ok, Err (a returned Error) or Panic (execution terminated).       *)
(***************************************************************************)
EXTENDS Integers, Sequences, FiniteSets, TLC

VARIABLES
    link,             \* the Link the put_* calls are made on
    pre,              \* that Link as it was when the latest call began
    call,             \* the latest call: method and arguments
    ret,              \* the outcome of the latest call
    calls,            \* number of calls made
    overflow_checks,  \* whether the build checks integer overflow (debug) or wraps (release)
    pc,               \* test_links.rs: position of thread_a and thread_b
    ends,             \* test_links.rs: link_a and link_b
    inbox,            \* test_links.rs: tokens delivered to each endpoint, not yet read
    flushed,          \* test_links.rs: per endpoint, how many of its tokens are flushed
    got,              \* test_links.rs: per endpoint, the values its reads returned
    args              \* test_links.rs: the values the exchange sends

vars == <<link, pre, call, ret, calls, overflow_checks, pc, ends, inbox, flushed, got, args>>

apiVars == <<link, pre, call, ret, calls, overflow_checks>>
testVars == <<pc, ends, inbox, flushed, got, args>>

(***************************************************************************)
(* usize and i32.  A usize is 64 bits wide, more than the model checker's  *)
(* integers hold, so a usize is its USIZE_LIMBS digits in base LIMB, least *)
(* significant first (a 64-bit target).  An i32 is an ordinary integer.    *)
(***************************************************************************)
USIZE_LIMBS == 8
LIMB == 256
I32_MAX == 2147483647

Limbs == 1..USIZE_LIMBS

RECURSIVE Digit(_, _)
Digit(n, i) == IF i = 1 THEN n % LIMB ELSE Digit(n \div LIMB, i - 1)

\* the usize with value n, for 0 <= n <= I32_MAX
USizeOf(n) == [i \in Limbs |-> Digit(n, i)]

RECURSIVE ULessFrom(_, _, _)
ULessFrom(a, b, i) ==
    IF i = 0 THEN FALSE
    ELSE IF a[i] # b[i] THEN a[i] < b[i]
    ELSE ULessFrom(a, b, i - 1)

\* a < b on usize
ULess(a, b) == ULessFrom(a, b, USIZE_LIMBS)

RECURSIVE UAddFrom(_, _, _, _)
UAddFrom(a, b, i, carry) ==
    IF i > USIZE_LIMBS THEN <<>>
    ELSE LET s == a[i] + b[i] + carry
         IN  <<s % LIMB>> \o UAddFrom(a, b, i + 1, s \div LIMB)

\* a + b on usize
UAdd(a, b) == LET d == UAddFrom(a, b, 1, 0) IN [i \in Limbs |-> d[i]]

RECURSIVE ColSum(_, _, _, _)
ColSum(a, b, c, i) ==
    IF i > USIZE_LIMBS THEN 0
    ELSE (IF c + 1 - i \in Limbs THEN a[i] * b[c + 1 - i] ELSE 0)
         + ColSum(a, b, c, i + 1)

RECURSIVE MulDigits(_, _, _, _)
MulDigits(a, b, c, carry) ==
    IF c > 2 * USIZE_LIMBS THEN <<>>
    ELSE LET s == ColSum(a, b, c, 1) + carry
         IN  <<s % LIMB>> \o MulDigits(a, b, c + 1, s \div LIMB)

\* usize * usize: the low 64 bits, and whether the full product needs more
UMul(a, b) ==
    LET d == MulDigits(a, b, 1, 0)
    IN  [wrapped  |-> [i \in Limbs |-> d[i]],
         overflow |-> \E i \in Limbs : d[USIZE_LIMBS + i] # 0]

RECURSIVE NatFrom(_, _)
NatFrom(u, i) == IF i > USIZE_LIMBS THEN 0 ELSE u[i] + LIMB * NatFrom(u, i + 1)

\* i32::try_from(usize): the i32 when the value is at most i32::MAX
I32TryFrom(u) ==
    IF ULess(USizeOf(I32_MAX), u)
    THEN [ok |-> FALSE, val |-> 0]
    ELSE [ok |-> TRUE, val |-> NatFrom(u, 1)]


(***************************************************************************)
(* Texts.  A &str is its leading bytes (head) followed by fill further     *)
(* bytes, none of them NUL, so that texts longer than i32::MAX can be      *)
(* written down.                                                           *)
(***************************************************************************)
Text(head, fill) == [head |-> head, fill |-> fill]

NoText == Text(<<>>, USizeOf(0))

\* string.len(): the byte length
ByteLen(t) == UAdd(USizeOf(Len(t.head)), t.fill)

\* whether a byte of the text is 0
HasNul(t) == \E i \in 1..Len(t.head) : t.head[i] = 0

\* Option<&str>
Some(t) == [some |-> TRUE, text |-> t]
None == [some |-> FALSE, text |-> NoText]

(***************************************************************************)
(* Outcomes of a call.                                                     *)
(***************************************************************************)
Ok == [kind |-> "Ok", code |-> 0, msg |-> ""]
Err(code, msg) == [kind |-> "Err", code |-> code, msg |-> msg]
Panic(msg) == [kind |-> "Panic", code |-> 0, msg |-> msg]
NotCalled == [kind |-> "None", code |-> 0, msg |-> ""]

\* the ? operator, unwrap and expect: anything but Ok ends the caller
Failed(r) == r.ret.kind # "Ok"

(***************************************************************************)
(* The link.  Tokens are records of one shape: kind, and the fields the    *)
(* kind uses (val: an integer payload, text, dims and data).               *)
(***************************************************************************)
WSTKFUNC == 70
WSEOK == 0

Tok(kind, val, text, dims, data) ==
    [kind |-> kind, val |-> val, text |-> text, dims |-> dims, data |-> data]

NewLink == [log |-> <<>>, err |-> WSEOK]

\* sys::WSPut*(raw_link, ...): one channel write, answered by a status; a zero
\* status leaves nothing on the stream and sets the link's error state
ChannelWrite(l, tok, ans) ==
    [log |-> Append(l.log, [tok |-> tok, status |-> ans.status]),
     err |-> IF ans.status = 0 THEN ans.err ELSE l.err]

\* number of channel writes made on the link
Writes(l) == Len(l.log)

RECURSIVE EmittedFrom(_, _)
EmittedFrom(log, i) ==
    IF i > Len(log) THEN <<>>
    ELSE (IF log[i].status # 0 THEN <<log[i].tok>> ELSE <<>>) \o EmittedFrom(log, i + 1)

\* the tokens on the stream: those of the writes the channel accepted
Tokens(l) == EmittedFrom(l.log, 1)

\* Link::error_or_unknown: the link's error, or the unknown error when it has none
error_or_unknown(l) ==
    IF l.err # WSEOK THEN Err(l.err, "link") ELSE Err(0, "unknown")

\* Checked as it would be with the status never tested
Checked_unchecked(l, tok, ans) ==
    [link |-> ChannelWrite(l, tok, ans), ret |-> Ok]

\* the test of the status that ends every single-write method: a zero status
\* returns Err(self.error_or_unknown()), any other Ok(())
Checked(l, tok, ans) ==
    LET l2 == ChannelWrite(l, tok, ans)
    IN  IF ans.status = 0
        THEN [link |-> l2, ret |-> error_or_unknown(l2)]
        ELSE [link |-> l2, ret |-> Ok]

(***************************************************************************)
(* src/src/put.rs                                                          *)
(***************************************************************************)
put_raw_type(l, type_, ans) ==
    Checked(l, Tok("Type", type_, NoText, <<>>, <<>>), ans)

RECURSIVE StrLen(_, _)
StrLen(bytes, i) ==
    IF i > Len(bytes) \/ bytes[i] = 0 THEN i - 1 ELSE StrLen(bytes, i + 1)

\* CStringLen as it would be with the text cut at its first NUL byte
CStringLen_truncating(string) ==
    IF HasNul(string)
    THEN [ret |-> Ok, len |-> StrLen(string.head, 1)]
    ELSE LET len == I32TryFrom(ByteLen(string))
         IN  IF ~len.ok
             THEN [ret |-> Panic("usize overflows i32"), len |-> 0]
             ELSE [ret |-> Ok, len |-> len.val]

\* CString::new(string).unwrap(), then i32::try_from(len).expect(..)
CStringLen(string) ==
    IF HasNul(string)
    THEN [ret |-> Panic("unwrap on NulError"), len |-> 0]
    ELSE LET len == I32TryFrom(ByteLen(string))
         IN  IF ~len.ok
             THEN [ret |-> Panic("usize overflows i32"), len |-> 0]
             ELSE [ret |-> Ok, len |-> len.val]

put_str(l, string, ans) ==
    LET c == CStringLen(string)
    IN  IF c.ret.kind # "Ok"
        THEN [link |-> l, ret |-> c.ret]
        ELSE Checked(l, Tok("Str", c.len, string, <<>>, <<>>), ans)

\* put_symbol as it would be calling WSPutUTF8String
put_symbol_as_string(l, symbol, ans) ==
    LET c == CStringLen(symbol)
    IN  IF c.ret.kind # "Ok"
        THEN [link |-> l, ret |-> c.ret]
        ELSE Checked(l, Tok("Str", c.len, symbol, <<>>, <<>>), ans)

put_symbol(l, symbol, ans) ==
    LET c == CStringLen(symbol)
    IN  IF c.ret.kind # "Ok"
        THEN [link |-> l, ret |-> c.ret]
        ELSE Checked(l, Tok("Sym", c.len, symbol, <<>>, <<>>), ans)

put_arg_count(l, count, ans) ==
    LET c == I32TryFrom(count)
    IN  IF ~c.ok
        THEN [link |-> l,
              ret |-> Err(0, "put_arg_count: Error converting usize to i32")]
        ELSE Checked(l, Tok("ArgCount", c.val, NoText, <<>>, <<>>), ans)

\* put_function as it would be writing the head whether or not one is given
put_function_always_symbol(l, head, count, anss) ==
    LET r1 == put_raw_type(l, WSTKFUNC, anss[1])
    IN  IF Failed(r1) THEN r1
        ELSE LET r2 == put_arg_count(r1.link, count, anss[2])
             IN  IF Failed(r2) THEN r2
                 ELSE put_symbol(r2.link, head.text, anss[3])

\* put_function as it would be without the ? after put_raw_type
put_function_tag_unchecked(l, head, count, anss) ==
    LET r1 == put_raw_type(l, WSTKFUNC, anss[1])
        r2 == put_arg_count(r1.link, count, anss[2])
    IN  IF Failed(r2) THEN r2
        ELSE IF head.some
             THEN put_symbol(r2.link, head.text, anss[3])
             ELSE [link |-> r2.link, ret |-> Ok]

\* anss: the channel's answers to the first, second and third write
put_function(l, head, count, anss) ==
    LET r1 == put_raw_type(l, WSTKFUNC, anss[1])
    IN  IF Failed(r1) THEN r1
        ELSE LET r2 == put_arg_count(r1.link, count, anss[2])
             IN  IF Failed(r2) THEN r2
                 ELSE IF head.some
                      THEN put_symbol(r2.link, head.text, anss[3])
                      ELSE [link |-> r2.link, ret |-> Ok]

put_i64(l, value, ans) ==
    Checked(l, Tok("I64", value, NoText, <<>>, <<>>), ans)

put_f64(l, value, ans) ==
    Checked(l, Tok("F64", value, NoText, <<>>, <<>>), ans)

RECURSIVE ProductFrom(_, _, _, _)
ProductFrom(dimensions, i, acc, checks) ==
    IF i > Len(dimensions) THEN [panic |-> FALSE, val |-> acc]
    ELSE LET m == UMul(acc, dimensions[i])
         IN  IF m.overflow /\ checks
             THEN [panic |-> TRUE, val |-> acc]
             ELSE ProductFrom(dimensions, i + 1, m.wrapped, checks)

\* dimensions.iter().product(): usize multiplication, which panics on overflow
\* in a build with overflow checks and wraps in one without
Product(dimensions, checks) == ProductFrom(dimensions, 1, USizeOf(1), checks)

\* ArrayArgs as it would be with unwrap_or(i32::MAX) for expect
ArrayArgs_saturating(data, dimensions, checks) ==
    LET p == Product(dimensions, checks)
    IN  IF p.panic
        THEN [ret |-> Panic("attempt to multiply with overflow"), dims |-> <<>>]
        ELSE IF USizeOf(Len(data)) # p.val
        THEN [ret |-> Panic("data length does not equal product of dimensions"),
              dims |-> <<>>]
        ELSE [ret |-> Ok,
              dims |-> [i \in 1..Len(dimensions) |->
                           IF I32TryFrom(dimensions[i]).ok
                           THEN I32TryFrom(dimensions[i]).val ELSE I32_MAX]]

\* the assert_eq! and the conversion of the dimensions that begin both array methods
ArrayArgs(data, dimensions, checks) ==
    LET p == Product(dimensions, checks)
    IN  IF p.panic
        THEN [ret |-> Panic("attempt to multiply with overflow"), dims |-> <<>>]
        ELSE IF USizeOf(Len(data)) # p.val
        THEN [ret |-> Panic("data length does not equal product of dimensions"),
              dims |-> <<>>]
        ELSE IF \E i \in 1..Len(dimensions) : ~I32TryFrom(dimensions[i]).ok
        THEN [ret |-> Panic("i32 overflows usize"), dims |-> <<>>]
        ELSE [ret |-> Ok,
              dims |-> [i \in 1..Len(dimensions) |-> I32TryFrom(dimensions[i]).val]]

put_i64_array(l, data, dimensions, ans, checks) ==
    LET a == ArrayArgs(data, dimensions, checks)
    IN  IF a.ret.kind # "Ok"
        THEN [link |-> l, ret |-> a.ret]
        ELSE Checked(l, Tok("I64Array", Len(a.dims), NoText, a.dims, data), ans)

put_f64_array(l, data, dimensions, ans, checks) ==
    LET a == ArrayArgs(data, dimensions, checks)
    IN  IF a.ret.kind # "Ok"
        THEN [link |-> l, ret |-> a.ret]
        ELSE Checked(l, Tok("F64Array", Len(a.dims), NoText, a.dims, data), ans)


(***************************************************************************)
(* The arguments the calls are tried with, and the channel's answers.      *)
(***************************************************************************)
MaxCalls == 1
MaxData == 2

WSEDEAD == 1
WSTKINT == 43

\* 2^k as a usize, for k < 64
Pow2(k) == [i \in Limbs |-> IF i = (k \div 8) + 1 THEN 2 ^ (k % 8) ELSE 0]

\* a status other than zero, or zero together with the error state the link is left in
Answers ==
    {[status |-> 1, err |-> WSEOK]} \cup {[status |-> 0, err |-> e] : e \in {WSEOK, WSEDEAD}}

Tags == {WSTKFUNC, WSTKINT}

Sin == Text(<<83, 105, 110>>, USizeOf(0))
TextEmpty == Text(<<>>, USizeOf(0))
\* "a\0b"
TextNul == Text(<<97, 0, 98>>, USizeOf(0))
\* i32::MAX bytes, and one byte more
TextMax == Text(<<97>>, USizeOf(I32_MAX - 1))
TextOver == Text(<<97, 98>>, USizeOf(I32_MAX - 1))

Texts == {Sin, TextEmpty, TextNul, TextMax, TextOver}
Heads == {None} \cup {Some(t) : t \in Texts}

\* 2, i32::MAX, i32::MAX + 1 and 2^63
Counts == {USizeOf(2), USizeOf(I32_MAX), Pow2(31), Pow2(63)}

I64s == {5, -1}
\* f64 values, in ten-thousandths: 1.0 and 3.1415
F64s == {10000, 31415}

\* data of each length up to MaxData
Datas == {[i \in 1..k |-> i] : k \in 0..MaxData}

\* shapes: well-formed ones; two with a dimension over i32::MAX and product 0, the
\* second with 2^64 on the way to it; one with a dimension over i32::MAX; and two
\* whose product is 2^64
Shapes ==
    {<<>>, <<USizeOf(1)>>, <<USizeOf(2)>>, <<USizeOf(2), USizeOf(1)>>,
     <<USizeOf(0), Pow2(31)>>, <<Pow2(32), Pow2(32), USizeOf(0)>>, <<Pow2(31)>>,
     <<Pow2(22), Pow2(21), Pow2(21)>>, <<Pow2(32), Pow2(32)>>}

(***************************************************************************)
(* One action per method of Link: a call made on the link, whole.          *)
(***************************************************************************)
Call(op, type_, text, head, count, value, data, dimensions) ==
    [op |-> op, type_ |-> type_, text |-> text, head |-> head, count |-> count,
     value |-> value, data |-> data, dimensions |-> dimensions]

NoCall == Call("none", 0, NoText, None, USizeOf(0), 0, <<>>, <<>>)

\* a call can be made while the program runs: a panic ended it
Running == ret.kind # "Panic" /\ calls < MaxCalls

Returns(c, r) ==
    /\ Running
    /\ pre' = link
    /\ call' = c
    /\ link' = r.link
    /\ ret' = r.ret
    /\ calls' = calls + 1
    /\ UNCHANGED overflow_checks
    /\ UNCHANGED testVars

PutRawType ==
    \E type_ \in Tags, ans \in Answers :
        Returns(Call("put_raw_type", type_, NoText, None, USizeOf(0), 0, <<>>, <<>>),
                put_raw_type(link, type_, ans))

PutStr ==
    \E string \in Texts, ans \in Answers :
        Returns(Call("put_str", 0, string, None, USizeOf(0), 0, <<>>, <<>>),
                put_str(link, string, ans))

PutSymbol ==
    \E symbol \in Texts, ans \in Answers :
        Returns(Call("put_symbol", 0, symbol, None, USizeOf(0), 0, <<>>, <<>>),
                put_symbol(link, symbol, ans))

PutFunction ==
    \E head \in Heads, count \in Counts, anss \in [1..3 -> Answers] :
        Returns(Call("put_function", 0, NoText, head, count, 0, <<>>, <<>>),
                put_function(link, head, count, anss))

PutArgCount ==
    \E count \in Counts, ans \in Answers :
        Returns(Call("put_arg_count", 0, NoText, None, count, 0, <<>>, <<>>),
                put_arg_count(link, count, ans))

PutI64 ==
    \E value \in I64s, ans \in Answers :
        Returns(Call("put_i64", 0, NoText, None, USizeOf(0), value, <<>>, <<>>),
                put_i64(link, value, ans))

PutF64 ==
    \E value \in F64s, ans \in Answers :
        Returns(Call("put_f64", 0, NoText, None, USizeOf(0), value, <<>>, <<>>),
                put_f64(link, value, ans))

PutI64Array ==
    \E data \in Datas, dimensions \in Shapes, ans \in Answers :
        Returns(Call("put_i64_array", 0, NoText, None, USizeOf(0), 0, data, dimensions),
                put_i64_array(link, data, dimensions, ans, overflow_checks))

PutF64Array ==
    \E data \in Datas, dimensions \in Shapes, ans \in Answers :
        Returns(Call("put_f64_array", 0, NoText, None, USizeOf(0), 0, data, dimensions),
                put_f64_array(link, data, dimensions, ans, overflow_checks))

TestIdle ==
    /\ pc = [t \in {"a", "b"} |-> "idle"]
    /\ ends = [t \in {"a", "b"} |-> NewLink]
    /\ inbox = [t \in {"a", "b"} |-> <<>>]
    /\ flushed = [t \in {"a", "b"} |-> 0]
    /\ got = [t \in {"a", "b"} |-> <<>>]
    /\ args = [int |-> 0, real |-> 0, count |-> USizeOf(0), symbol |-> NoText, child |-> 0]

Init ==
    /\ link = NewLink
    /\ pre = NewLink
    /\ call = NoCall
    /\ ret = NotCalled
    /\ calls = 0
    /\ overflow_checks \in BOOLEAN
    /\ TestIdle

Next ==
    \/ PutRawType
    \/ PutStr
    \/ PutSymbol
    \/ PutFunction
    \/ PutArgCount
    \/ PutI64
    \/ PutF64
    \/ PutI64Array
    \/ PutF64Array

Spec == Init /\ [][Next]_vars


(***************************************************************************)
(* src/tests/test_links.rs, check_send_data_across_link: link_a and link_b *)
(* are the two endpoints of one connection, each moved into its own        *)
(* thread.  args holds the values the test sends (5, 3.1415, 2, "Sin" and  *)
(* 1.0 in the test).  The transport is healthy: every channel write is     *)
(* answered by a non-zero status.                                          *)
(***************************************************************************)
Threads == {"a", "b"}
Peer(t) == IF t = "a" THEN "b" ELSE "a"

Accepted == [status |-> 1, err |-> WSEOK]

ApiIdle ==
    /\ link = NewLink
    /\ pre = NewLink
    /\ call = NoCall
    /\ ret = NotCalled
    /\ calls = 0
    /\ overflow_checks = FALSE

ExchangeInit ==
    /\ ApiIdle
    /\ pc = [t \in Threads |-> "activate"]
    /\ ends = [t \in Threads |-> NewLink]
    /\ inbox = [t \in Threads |-> <<>>]
    /\ flushed = [t \in Threads |-> 0]
    /\ got = [t \in Threads |-> <<>>]
    /\ args \in [int : I64s, real : F64s, count : {USizeOf(2), USizeOf(I32_MAX)},
                 symbol : {Sin, TextEmpty}, child : F64s]

\* the tokens endpoint t has written that are not yet on their way to its peer
Pending(t) == SubSeq(Tokens(ends[t]), flushed[t] + 1, Len(Tokens(ends[t])))

\* Link::activate: begins the handshake, and returns once the peer has begun it too
Activate(t) ==
    /\ pc[t] = "activate"
    /\ pc' = [pc EXCEPT ![t] = "activating"]
    /\ UNCHANGED <<ends, inbox, flushed, got, args>>
    /\ UNCHANGED apiVars

Activated(t, next) ==
    /\ pc[t] = "activating"
    /\ pc[Peer(t)] # "activate"
    /\ pc' = [pc EXCEPT ![t] = next]
    /\ UNCHANGED <<ends, inbox, flushed, got, args>>
    /\ UNCHANGED apiVars

\* a put_* call followed by unwrap: r is what the call returned
PutUnwrap(t, at, next, r) ==
    /\ pc[t] = at
    /\ ends' = [ends EXCEPT ![t] = r.link]
    /\ pc' = [pc EXCEPT ![t] = IF r.ret.kind = "Ok" THEN next ELSE "panicked"]
    /\ UNCHANGED <<inbox, flushed, got, args>>
    /\ UNCHANGED apiVars

\* Link::flush followed by unwrap: everything written so far is sent to the peer
FlushUnwrap(t, at, next) ==
    /\ pc[t] = at
    /\ inbox' = [inbox EXCEPT ![Peer(t)] = @ \o Pending(t)]
    /\ flushed' = [flushed EXCEPT ![t] = Len(Tokens(ends[t]))]
    /\ pc' = [pc EXCEPT ![t] = next]
    /\ UNCHANGED <<ends, got, args>>
    /\ UNCHANGED apiVars

\* a get_* call and the unwrap or assert_eq! on what it returned: the call blocks
\* until a token has arrived, and returns an Err when the token is of another
\* kind; expected is the token the assertion compares with
GetAssert(t, at, next, expected) ==
    /\ pc[t] = at
    /\ inbox[t] # <<>>
    /\ inbox' = [inbox EXCEPT ![t] = Tail(@)]
    /\ got' = [got EXCEPT ![t] = Append(@, Head(inbox[t]))]
    /\ pc' = [pc EXCEPT ![t] = IF Head(inbox[t]) = expected THEN next ELSE "panicked"]
    /\ UNCHANGED <<ends, flushed, args>>
    /\ UNCHANGED apiVars

\* the transport may send written tokens before a flush asks for it
Transmit ==
    \E t \in Threads :
        /\ Pending(t) # <<>>
        /\ inbox' = [inbox EXCEPT ![Peer(t)] = Append(@, Head(Pending(t)))]
        /\ flushed' = [flushed EXCEPT ![t] = @ + 1]
        /\ UNCHANGED <<pc, ends, got, args>>
        /\ UNCHANGED apiVars

\* the tokens the exchange is made of
IntTok == Tok("I64", args.int, NoText, <<>>, <<>>)
RealTok == Tok("F64", args.real, NoText, <<>>, <<>>)
FuncTok == Tok("Type", WSTKFUNC, NoText, <<>>, <<>>)
CountTok == Tok("ArgCount", NatFrom(args.count, 1), NoText, <<>>, <<>>)
SymbolTok == Tok("Sym", NatFrom(ByteLen(args.symbol), 1), args.symbol, <<>>, <<>>)
ChildTok == Tok("F64", args.child, NoText, <<>>, <<>>)

a_activate == Activate("a") \/ Activated("a", "put_i64")
a_put_i64 == PutUnwrap("a", "put_i64", "flush", put_i64(ends["a"], args.int, Accepted))
\* a_flush as it would be with the flush left out
a_flush_skipped ==
    /\ pc["a"] = "flush"
    /\ pc' = [pc EXCEPT !["a"] = "get_f64"]
    /\ UNCHANGED <<ends, inbox, flushed, got, args>>
    /\ UNCHANGED apiVars

a_flush == FlushUnwrap("a", "flush", "get_f64")
a_get_f64 == GetAssert("a", "get_f64", "put_raw_type", RealTok)
a_put_raw_type ==
    PutUnwrap("a", "put_raw_type", "put_arg_count",
              put_raw_type(ends["a"], WSTKFUNC, Accepted))
a_put_arg_count ==
    PutUnwrap("a", "put_arg_count", "put_symbol",
              put_arg_count(ends["a"], args.count, Accepted))
a_put_symbol ==
    PutUnwrap("a", "put_symbol", "put_f64", put_symbol(ends["a"], args.symbol, Accepted))
a_put_f64 ==
    PutUnwrap("a", "put_f64", "flush_function", put_f64(ends["a"], args.child, Accepted))
a_flush_function == FlushUnwrap("a", "flush_function", "done")

thread_a ==
    \/ a_activate
    \/ a_put_i64
    \/ a_flush
    \/ a_get_f64
    \/ a_put_raw_type
    \/ a_put_arg_count
    \/ a_put_symbol
    \/ a_put_f64
    \/ a_flush_function

b_activate == Activate("b") \/ Activated("b", "get_i64")
b_get_i64 == GetAssert("b", "get_i64", "put_f64", IntTok)
b_put_f64 == PutUnwrap("b", "put_f64", "flush", put_f64(ends["b"], args.real, Accepted))
b_flush == FlushUnwrap("b", "flush", "get_raw_type")
b_get_raw_type == GetAssert("b", "get_raw_type", "get_arg_count", FuncTok)
b_get_arg_count == GetAssert("b", "get_arg_count", "get_symbol_ref", CountTok)
b_get_symbol_ref == GetAssert("b", "get_symbol_ref", "get_f64", SymbolTok)
b_get_f64 == GetAssert("b", "get_f64", "done", ChildTok)

thread_b ==
    \/ b_activate
    \/ b_get_i64
    \/ b_put_f64
    \/ b_flush
    \/ b_get_raw_type
    \/ b_get_arg_count
    \/ b_get_symbol_ref
    \/ b_get_f64

ExchangeNext == thread_a \/ thread_b \/ Transmit

\* each thread is scheduled again and again; the transport owes nothing before a flush
Exchange ==
    ExchangeInit /\ [][ExchangeNext]_vars /\ WF_vars(thread_a) /\ WF_vars(thread_b)


(***************************************************************************)
(* Properties.  The latest call is described by call, pre, link and ret.   *)
(***************************************************************************)
\* what the latest call added: channel writes made, and tokens put on the stream
NewWrites == Writes(link) - Writes(pre)
NewTokens == SubSeq(Tokens(link), Len(Tokens(pre)) + 1, Len(Tokens(link)))
LastWrite == link.log[Len(link.log)]

TagToken == Tok("Type", WSTKFUNC, NoText, <<>>, <<>>)
ArityToken == Tok("ArgCount", NatFrom(call.count, 1), NoText, <<>>, <<>>)
HeadToken == Tok("Sym", NatFrom(ByteLen(call.head.text), 1), call.head.text, <<>>, <<>>)

ExceedsI32(u) == ULess(USizeOf(I32_MAX), u)

ConversionError == Err(0, "put_arg_count: Error converting usize to i32")

\* the error the link's error state stands for
LinkError == IF link.err = WSEOK THEN Err(0, "unknown") ELSE Err(link.err, "link")

IsArrayCall == call.op \in {"put_i64_array", "put_f64_array"}
IsTextCall == call.op \in {"put_str", "put_symbol"}

\* product(dims) = data.len() over the natural numbers: with a zero dimension the
\* product is 0, and otherwise a product that does not fit a usize is no length
ShapeHolds ==
    IF \E i \in 1..Len(call.dimensions) : call.dimensions[i] = USizeOf(0)
    THEN Len(call.data) = 0
    ELSE /\ ~Product(call.dimensions, TRUE).panic
         /\ Product(call.dimensions, TRUE).val = USizeOf(Len(call.data))

\* C1: a put_function whose arity exceeds i32::MAX returns the conversion error
\* and has made no channel write.
C1_ArityOverflowWritesNothing ==
    (call.op = "put_function" /\ ExceedsI32(call.count))
        => (ret = ConversionError /\ NewWrites = 0)

\* C2: a put_str or put_symbol of a text longer than i32::MAX bytes returns an
\* error to its caller, execution going on, and makes no channel write.
C2_LengthOverflowReturnsError ==
    (IsTextCall /\ ~HasNul(call.text) /\ ExceedsI32(ByteLen(call.text)))
        => (ret.kind = "Err" /\ NewWrites = 0)

\* C3: a put_function that returns Ok has put on the stream the function tag,
\* then the argument count, then the head as a symbol exactly when a head is
\* given, in two channel writes without a head and three with one.
C3_FunctionTokens ==
    (call.op = "put_function" /\ ret.kind = "Ok")
        => /\ NewTokens = <<TagToken, ArityToken>>
                          \o (IF call.head.some THEN <<HeadToken>> ELSE <<>>)
           /\ NewWrites = (IF call.head.some THEN 3 ELSE 2)
           /\ \A i \in 1..Len(NewTokens) : NewTokens[i].kind = "Sym" => call.head.some

C3_Witness ==
    /\ call.op = "put_function"
    /\ ret.kind = "Ok"
    /\ ~call.head.some
    /\ NewWrites = 2
    /\ NewTokens = <<TagToken, ArityToken>>

\* C4: an array call whose data length is not the product of its dimensions
\* terminates execution before any channel write.
C4_ShapeMismatchTerminates ==
    (IsArrayCall /\ ~ShapeHolds) => (ret.kind = "Panic" /\ NewWrites = 0)

\* C5: an array call whose shape holds and one of whose dimensions exceeds
\* i32::MAX terminates execution without a channel write, where put_arg_count
\* returns an Error for a count that large.
C5_DimensionOverflowTerminates ==
    /\ (IsArrayCall /\ ShapeHolds
            /\ \E i \in 1..Len(call.dimensions) : ExceedsI32(call.dimensions[i]))
        => (ret.kind = "Panic" /\ NewWrites = 0)
    /\ (call.op = "put_arg_count" /\ ExceedsI32(call.count))
        => (ret.kind = "Err" /\ NewWrites = 0)

C5_Witness ==
    /\ call.op = "put_i64_array"
    /\ ShapeHolds
    /\ \E i \in 1..Len(call.dimensions) : ExceedsI32(call.dimensions[i])
    /\ ret = Panic("i32 overflows usize")
    /\ link = pre

\* C6: a single-write call that reaches its channel write returns Ok exactly
\* when the write's status is not zero, and otherwise the error of the link's
\* error state, which is the unknown error when the link has none.
SingleWriteOps ==
    {"put_raw_type", "put_str", "put_symbol", "put_arg_count", "put_i64", "put_f64",
     "put_i64_array", "put_f64_array"}

\* arguments that pass the checks made before the write, whatever the build
ArgsPassChecks ==
    CASE IsTextCall -> ~HasNul(call.text) /\ ~ExceedsI32(ByteLen(call.text))
      [] call.op = "put_arg_count" -> ~ExceedsI32(call.count)
      [] IsArrayCall ->
            /\ ~Product(call.dimensions, TRUE).panic
            /\ Product(call.dimensions, TRUE).val = USizeOf(Len(call.data))
            /\ \A i \in 1..Len(call.dimensions) : ~ExceedsI32(call.dimensions[i])
      [] OTHER -> TRUE

C6_StatusDecidesResult ==
    call.op \in SingleWriteOps
        => /\ ArgsPassChecks => NewWrites = 1
           /\ NewWrites > 0
                => /\ NewWrites = 1
                   /\ (ret.kind = "Ok") <=> (LastWrite.status # 0)
                   /\ (LastWrite.status = 0) => (ret = LinkError)

C6_Witness ==
    /\ call.op = "put_i64_array"
    /\ NewWrites = 1
    /\ LastWrite.status = 0
    /\ link.err = WSEOK
    /\ ret = Err(0, "unknown")

\* C7: what an endpoint reads is what its peer wrote, in the order written, kind
\* and value kept: each endpoint's reads and unread arrivals are the first tokens
\* its peer wrote, thread_b ends having read the integer, the function tag, the
\* argument count, the symbol and the real, and thread_a the real written by b.
ReadsOf(t) == got[t] \o inbox[t]

AllDone == \A t \in Threads : pc[t] = "done"

C9_StopsAtFirstFailure ==
    (call.op = "put_function" /\ ret.kind = "Err")
        => IF ExceedsI32(call.count) /\ NewWrites = 1 /\ LastWrite.status # 0
           THEN ret = ConversionError /\ NewTokens = <<TagToken>>
           ELSE /\ NewWrites \in 1..3
                /\ LastWrite.status = 0
                /\ ret = LinkError
                /\ NewWrites = 3 => call.head.some
                /\ NewWrites = 1 => NewTokens = <<>>
                /\ NewWrites = 2 => NewTokens = <<TagToken>>
                /\ NewWrites = 3 => NewTokens = <<TagToken, ArityToken>>

C9_Witness ==
    /\ call.op = "put_function"
    /\ ret.kind = "Err"
    /\ NewWrites = 3
    /\ NewTokens = <<TagToken, ArityToken>>
    /\ LastWrite.status = 0

\* C10, as stated: a put_str or put_symbol of a text with a NUL byte in it is
\* not rejected: the channel write is made and its status decides the result.
C10_NulStillWritten ==
    (IsTextCall /\ HasNul(call.text))
        => (ret.kind \in {"Ok", "Err"} /\ NewWrites = 1)

\* C10, as amended: a put_str or put_symbol of a text with a NUL byte in it
\* terminates execution before any channel write, leaving the link as it was.
C10_NulTerminates ==
    (IsTextCall /\ HasNul(call.text))
        => (ret.kind = "Panic" /\ NewWrites = 0 /\ link = pre)

C10_Witness ==
    /\ call.op = "put_symbol"
    /\ HasNul(call.text)
    /\ ret = Panic("unwrap on NulError")
    /\ link = pre

====
